---- MODULE Spec2Model ----
(***************************************************************************)
(* Pathfinder: error-simulation API (ASP.NET Core) and its Angular client. *)
(*                                                                         *)
(* Backend : ErrorSimulationController, HealthController and the global    *)
(*           exception handler middleware of Program.cs.                   *)
(* Frontend: AppComponent (action catalog, runClient / runHttp),           *)
(*           ErrorService and GlobalErrorHandler.                          *)
(***************************************************************************)
EXTENDS Integers, Sequences, FiniteSets, TLC

(***************************************************************************)
(* Bounds of the model.                                                    *)
(***************************************************************************)
\* total number of things that happen in the page: button clicks, and errors
\* raised by code outside the catalog (handleError calls, rejections and
\* error events)
MaxEvents == 2
\* how many times GlobalErrorHandler is constructed after bootstrap
MaxConstructions == 1

(***************************************************************************)
(* Values.                                                                 *)
(***************************************************************************)
\* JSON null in a traceId field, and a field the body does not have
Null == 0
Absent == -1
\* a string field the body does not have
NoField == "<absent>"
\* btn.response === undefined
Undefined == <<>>

\* System.Diagnostics.Activity: null, or an activity of some trace
NoActivity == [name |-> "<null>", traceId |-> 0]

\* how a request is traced: not at all; by the hosting layer's request
\* activity only (ActivitySource "PathfinderApi" has no listener, so
\* StartActivity returns null); or with the handler's own span as well
TraceModes == {"off", "ambient", "span"}

\* what the call to the unreachable downstream service ends with
DownstreamOutcomes == {"refused", "timedout"}

\* exceptions: GetType().FullName, GetType().Name, Message, StackTrace
NoExc == [type |-> "<none>", name |-> "<none>", message |-> "<none>",
          stack |-> "<none>"]
Exc(ns, name, msg) == [type |-> ns, name |-> name, message |-> msg,
                       stack |-> "at PathfinderApi.Controllers"]

(***************************************************************************)
(* Backend: tracing primitives.                                            *)
(***************************************************************************)
\* the request activity the hosting layer starts before the pipeline runs
AmbientActivity(trc, r) ==
    IF trc = "off" THEN NoActivity
    ELSE [name |-> "HttpRequestIn", traceId |-> r]

\* ActivitySource.StartActivity(name): null without a listener, else a child
\* of Activity.Current
StartActivity(spanName, trc, parent) ==
    IF trc = "span" THEN [name |-> spanName, traceId |-> parent.traceId]
    ELSE NoActivity

\* Activity.Current while the handler's "using var activity" is in scope
ActivityCurrent(activity, parent) ==
    IF activity # NoActivity THEN activity ELSE parent

\* Activity.Current?.TraceId.ToString()
TraceIdString(act) ==
    IF act = NoActivity THEN Null ELSE act.traceId

\* what the handler recorded on its span: activity?.SetStatus / AddEvent
\* do nothing when activity is null
NoSpanData == [status |-> "Unset", events |-> <<>>, tags |-> <<>>]
SetStatusError(activity, data) ==
    IF activity = NoActivity THEN data ELSE [data EXCEPT !.status = "Error"]
AddExceptionEvent(activity, data, ex) ==
    IF activity = NoActivity THEN data
    ELSE [data EXCEPT !.events = Append(@, [name |-> "exception", type |-> ex.type,
                                            message |-> ex.message,
                                            stacktrace |-> ex.stack])]
\* activity?.SetTag(key, value)
SetTag(activity, data, key, value) ==
    IF activity = NoActivity THEN data
    ELSE [data EXCEPT !.tags = Append(@, <<key, value>>)]

(***************************************************************************)
(* Backend: results of an action method.                                   *)
(***************************************************************************)
\* the memory a handler allocated and what it still references at its end
NoMem == [allocatedMb |-> 0, heldBlocks |-> 0]

NoBody == [error |-> NoField, message |-> NoField, traceId |-> Absent,
           status |-> NoField, data |-> <<>>]

\* new { error, message, traceId }
Envelope(error, message, traceId) ==
    [NoBody EXCEPT !.error = error, !.message = message, !.traceId = traceId]

\* _logger.LogError(ex, ...) / Log.Error(ex, ...)
LogError(ex, by) == [level |-> "Error", exc |-> ex.name, by |-> by]

\* the action method returned an IActionResult
Returned(status, body, span, log) ==
    [kind |-> "result", status |-> status, body |-> body, exc |-> NoExc,
     raised |-> 0, caught |-> <<>>, span |-> span, log |-> log, responses |-> 1,
     mem |-> NoMem, steps |-> <<>>]

\* an exception is thrown and leaves the block
Thrown(ex, span, log) ==
    [kind |-> "throw", status |-> 0, body |-> NoBody, exc |-> ex,
     raised |-> 1, caught |-> <<>>, span |-> span, log |-> log, responses |-> 0,
     mem |-> NoMem, steps |-> <<>>]

\* an awaited task that never completes
NeverCompletes(span, log) ==
    [kind |-> "pending", status |-> 0, body |-> NoBody, exc |-> NoExc,
     raised |-> 0, caught |-> <<>>, span |-> span, log |-> log, responses |-> 0,
     mem |-> NoMem, steps |-> <<>>]

\* try { body } catch (Exception ex) { ... }: the result of the catch
\* clause, handled, counts only when the body threw; layer names the
\* catching block. raised counts the throws of the request and caught lists
\* the blocks that caught one
TryCatch(body, handled, layer) ==
    IF body.kind = "throw"
    THEN [handled EXCEPT !.caught = body.caught \o <<layer>> \o @,
                         !.raised = body.raised + @,
                         !.mem = body.mem]
    ELSE body

(***************************************************************************)
(* Backend: ErrorSimulationController and HealthController.                *)
(***************************************************************************)
\* variant: activity.SetStatus(...) without the null-conditional operator,
\* a NullReferenceException inside the catch block when there is no span
CatchToEnvelope_NoNullCheck(t, activity, parent, status, error) ==
    IF activity = NoActivity
    THEN Thrown(Exc("System.NullReferenceException", "NullReferenceException",
                    "Object reference not set to an instance of an object."),
                t.span, t.log)
    ELSE Returned(status,
                  Envelope(error, t.exc.message,
                           TraceIdString(ActivityCurrent(activity, parent))),
                  AddExceptionEvent(activity, SetStatusError(activity, t.span), t.exc),
                  Append(t.log, LogError(t.exc, "controller")))

\* the catch block shared by handled-exception, dependency-failure and
\* serialization-error: annotate the span, log, return StatusCode(status, envelope)
CatchToEnvelope(t, activity, parent, status, error) ==
    LET s1 == SetStatusError(activity, t.span)
        s2 == AddExceptionEvent(activity, s1, t.exc)
    IN  Returned(status,
                 Envelope(error, t.exc.message,
                          TraceIdString(ActivityCurrent(activity, parent))),
                 s2, Append(t.log, LogError(t.exc, "controller")))

\* string? value = null; _ = value!.Length;
NullString == "<null string>"
StringLength(value, span, log) ==
    IF value = NullString
    THEN Thrown(Exc("System.NullReferenceException", "NullReferenceException",
                    "Object reference not set to an instance of an object."),
                span, log)
    ELSE Returned(200, NoBody, span, log)

UnhandledException(trc, parent) ==
    LET activity == StartActivity("SimulateUnhandledException", trc, parent)
    IN  StringLength(NullString, NoSpanData, <<>>)

\* variant: the catch block logs and rethrows
HandledExceptionCatch_Rethrow(t, activity, parent) ==
    Thrown(t.exc, t.span, Append(t.log, LogError(t.exc, "controller")))

HandledExceptionCatch(t, activity, parent) ==
    CatchToEnvelope(t, activity, parent, 500, "HandledException")

HandledException(trc, parent) ==
    LET activity == StartActivity("SimulateHandledException", trc, parent)
        body == Thrown(Exc("System.InvalidOperationException", "InvalidOperationException",
                           "Simulated handled exception"), NoSpanData, <<>>)
    IN  TryCatch(body, HandledExceptionCatch(body, activity, parent), "local")

\* as above, after db.system / db.statement have been tagged on the span
SqlErrorCatch(t, activity, parent) ==
    CatchToEnvelope(t, activity, parent, 500, "DatabaseError")

SqlError(trc, parent) ==
    LET activity == StartActivity("SimulateSqlError", trc, parent)
        body == Thrown(Exc("System.Exception", "Exception",
                           "Database connection failed: Unable to connect to server 'db-server:5432'. Connection refused."),
                       NoSpanData, <<>>)
    IN  TryCatch(body, SqlErrorCatch(body, activity, parent), "local")

\* await Task.Delay(30000); return Ok(new { message })
Timeout(trc, parent) ==
    LET activity == StartActivity("SimulateTimeout", trc, parent)
    IN  Returned(200, [NoBody EXCEPT !.message = "Completed after timeout delay"],
                 NoSpanData, <<>>)

\* Stopwatch: the elapsed time in ticks of 100 ns. Elapsed.TotalSeconds is
\* compared with 3 below, ElapsedMilliseconds is the whole milliseconds
TicksPerSecond == 10000000
TicksPerMillisecond == 10000
SpikeSeconds == 3
TotalSecondsBelow(ticks, seconds) == ticks < seconds * TicksPerSecond
\* variant: Elapsed.Milliseconds, the milliseconds component of the time span
ElapsedMilliseconds_Component(ticks) == (ticks \div TicksPerMillisecond) % 1000
ElapsedMilliseconds(ticks) == ticks \div TicksPerMillisecond

\* while (sw.Elapsed.TotalSeconds < 3) { ... }: the stopwatch has advanced
\* by step ticks at each reading; the reading at which the loop exits
RECURSIVE BusyWait(_, _)
BusyWait(ticks, step) ==
    IF TotalSecondsBelow(ticks, SpikeSeconds) THEN BusyWait(ticks + step, step)
    ELSE ticks

\* the stopwatch is read again, lag ticks later, for the tag, the log entry
\* and the body
CpuSpike(trc, parent, step, lag) ==
    LET activity == StartActivity("SimulateCpuSpike", trc, parent)
        s1 == SetTag(activity, NoSpanData, "cpu.duration_seconds", SpikeSeconds)
        exit == BusyWait(step, step)
        s2 == SetTag(activity, s1, "cpu.actual_duration_ms", ElapsedMilliseconds(exit + lag))
    IN  Returned(200, [NoBody EXCEPT !.message = "CPU spike simulation completed",
                                     !.data = <<"durationMs", ElapsedMilliseconds(exit + 3 * lag)>>,
                                     !.traceId = TraceIdString(ActivityCurrent(activity, parent))],
                 s2, <<>>)

\* new byte[10 * 1024 * 1024], 50 times
BlockBytes == 10 * 1024 * 1024
BlockCount == 50
BytesPerMb == 1024 * 1024

\* for (i = 0; i < 50; i++) data.Add(new byte[...]): data.Count when the loop
\* ends, and whether it ended by a failed allocation; free is the number of
\* blocks the heap can still give
RECURSIVE AllocateBlocks(_, _, _)
AllocateBlocks(i, count, free) ==
    IF i < BlockCount
    THEN IF count < free THEN AllocateBlocks(i + 1, count + 1, free)
         ELSE [count |-> count, failed |-> TRUE]
    ELSE [count |-> count, failed |-> FALSE]

\* data.Clear(): the list references no block afterwards
ListClear(count) == 0

\* variant: the body reports the size of one block
MemorySpike_BlockSize(trc, parent, free) ==
    LET activity == StartActivity("SimulateMemorySpike", trc, parent)
        loop == AllocateBlocks(0, 0, free)
        mem == [allocatedMb |-> (loop.count * BlockBytes) \div BytesPerMb,
                heldBlocks |-> ListClear(loop.count)]
    IN  IF loop.failed
        THEN [Thrown(Exc("System.OutOfMemoryException", "OutOfMemoryException",
                         "Exception of type 'System.OutOfMemoryException' was thrown."),
                     NoSpanData, <<>>) EXCEPT !.mem = mem]
        ELSE [Returned(200, [NoBody EXCEPT !.message = "Memory spike simulation completed",
                                           !.data = <<"allocatedMb", 10>>,
                                           !.traceId = TraceIdString(ActivityCurrent(activity, parent))],
                       SetTag(activity, NoSpanData, "memory.allocated_mb", loop.count * 10),
                       <<>>) EXCEPT !.mem = mem]

\* variant: data.Clear() after the loop instead of in a finally block
MemorySpike_ClearOnSuccess(trc, parent, free) ==
    LET activity == StartActivity("SimulateMemorySpike", trc, parent)
        loop == AllocateBlocks(0, 0, free)
        mem == [allocatedMb |-> (loop.count * BlockBytes) \div BytesPerMb,
                heldBlocks |-> IF loop.failed THEN loop.count ELSE ListClear(loop.count)]
    IN  IF loop.failed
        THEN [Thrown(Exc("System.OutOfMemoryException", "OutOfMemoryException",
                         "Exception of type 'System.OutOfMemoryException' was thrown."),
                     NoSpanData, <<>>) EXCEPT !.mem = mem]
        ELSE [Returned(200, [NoBody EXCEPT !.message = "Memory spike simulation completed",
                                           !.data = <<"allocatedMb", 500>>,
                                           !.traceId = TraceIdString(ActivityCurrent(activity, parent))],
                       SetTag(activity, NoSpanData, "memory.allocated_mb", loop.count * 10),
                       <<>>) EXCEPT !.mem = mem]

\* try { 50 x data.Add(new byte[10MB]); SetTag } finally { data.Clear() }: a
\* failed allocation leaves through the finally block, which catches nothing
MemorySpike(trc, parent, free) ==
    LET activity == StartActivity("SimulateMemorySpike", trc, parent)
        loop == AllocateBlocks(0, 0, free)
        mem == [allocatedMb |-> (loop.count * BlockBytes) \div BytesPerMb,
                heldBlocks |-> ListClear(loop.count)]
    IN  IF loop.failed
        THEN [Thrown(Exc("System.OutOfMemoryException", "OutOfMemoryException",
                         "Exception of type 'System.OutOfMemoryException' was thrown."),
                     NoSpanData, <<>>) EXCEPT !.mem = mem]
        ELSE [Returned(200, [NoBody EXCEPT !.message = "Memory spike simulation completed",
                                           !.data = <<"allocatedMb", 500>>,
                                           !.traceId = TraceIdString(ActivityCurrent(activity, parent))],
                       SetTag(activity, NoSpanData, "memory.allocated_mb", loop.count * 10),
                       <<>>) EXCEPT !.mem = mem]

\* variant: no client.Timeout, a call that gets no answer is awaited for ever
GetAsync_NoTimeout(downstream, span, log) ==
    CASE downstream = "refused" ->
            Thrown(Exc("System.Net.Http.HttpRequestException", "HttpRequestException",
                       "Connection refused (unreachable-service.local:9999)"), span, log)
      [] downstream = "timedout" -> NeverCompletes(span, log)
      [] OTHER -> Returned(200, NoBody, span, log)

\* await client.GetAsync(unreachable): HttpRequestException, or
\* TaskCanceledException once client.Timeout (5 s) has passed
GetAsync(downstream, span, log) ==
    CASE downstream = "refused" ->
            Thrown(Exc("System.Net.Http.HttpRequestException", "HttpRequestException",
                       "Connection refused (unreachable-service.local:9999)"), span, log)
      [] downstream = "timedout" ->
            Thrown(Exc("System.Threading.Tasks.TaskCanceledException", "TaskCanceledException",
                       "The request was canceled due to the configured HttpClient.Timeout of 5 seconds elapsing."),
                   span, log)
      [] OTHER -> Returned(200, NoBody, span, log)

\* variant: the catch block answers 500 like its neighbours
DependencyFailureCatch_Status500(t, activity, parent) ==
    CatchToEnvelope(t, activity, parent, 500, "DependencyFailure")

DependencyFailureCatch(t, activity, parent) ==
    CatchToEnvelope(t, activity, parent, 502, "DependencyFailure")

DependencyFailure(trc, parent, downstream) ==
    LET activity == StartActivity("SimulateDependencyFailure", trc, parent)
        body == GetAsync(downstream, NoSpanData, <<>>)
    IN  TryCatch(body, DependencyFailureCatch(body, activity, parent), "local")

\* a = {Name: "A"}, b = {Name: "B", Ref: a}, a.Ref = b
CircularRefGraph == [A |-> "B", B |-> "A"]
NoRef == "<null ref>"

\* the objects reached from obj by following Ref at least once
RECURSIVE ReachableRefs(_, _, _)
ReachableRefs(graph, obj, seen) ==
    LET next == graph[obj]
    IN  IF next = NoRef \/ next \in seen THEN seen
        ELSE ReachableRefs(graph, next, seen \cup {next})

\* JsonSerializer.Serialize(obj) with the default options: an object cycle
\* is a JsonException
JsonSerialize(graph, obj, span, log) ==
    IF obj \in ReachableRefs(graph, obj, {})
    THEN Thrown(Exc("System.Text.Json.JsonException", "JsonException",
                    "A possible object cycle was detected."), span, log)
    ELSE Returned(200, NoBody, span, log)

SerializationErrorCatch(t, activity, parent) ==
    CatchToEnvelope(t, activity, parent, 500, "SerializationError")

SerializationError(trc, parent) ==
    LET activity == StartActivity("SimulateSerializationError", trc, parent)
        body == JsonSerialize(CircularRefGraph, "A", NoSpanData, <<>>)
    IN  TryCatch(body, SerializationErrorCatch(body, activity, parent), "local")

AuthFailure(trc, parent) ==
    LET activity == StartActivity("SimulateAuthFailure", trc, parent)
    IN  Returned(401, Envelope("Unauthorized", "Invalid or missing authentication token",
                               TraceIdString(ActivityCurrent(activity, parent))),
                 SetStatusError(activity, NoSpanData), <<>>)

Forbidden(trc, parent) ==
    LET activity == StartActivity("SimulateForbidden", trc, parent)
    IN  Returned(403, Envelope("Forbidden",
                               "You do not have permission to access this resource. Required role: Admin",
                               TraceIdString(ActivityCurrent(activity, parent))),
                 SetStatusError(activity, NoSpanData), <<>>)

SlowResponse(trc, parent) ==
    LET activity == StartActivity("SimulateSlowResponse", trc, parent)
    IN  Returned(200, [NoBody EXCEPT !.message = "Slow response completed after 5 seconds",
                                     !.data = <<"delayMs", 5000>>,
                                     !.traceId = TraceIdString(ActivityCurrent(activity, parent))],
                 NoSpanData, <<>>)

\* variant: the traceId is read from the handler's own activity, which is
\* null when the ActivitySource has no listener
HealthGet_OwnActivityTraceId(trc, parent) ==
    LET activity == StartActivity("HealthCheck", trc, parent)
    IN  Returned(200, [NoBody EXCEPT !.status = "healthy",
                                     !.data = <<"timestamp">>,
                                     !.traceId = TraceIdString(activity)],
                 NoSpanData, <<>>)

\* HealthController.Get
HealthGet(trc, parent) ==
    LET activity == StartActivity("HealthCheck", trc, parent)
    IN  Returned(200, [NoBody EXCEPT !.status = "healthy",
                                     !.data = <<"timestamp">>,
                                     !.traceId = TraceIdString(ActivityCurrent(activity, parent))],
                 NoSpanData, <<>>)

\* the operations of the API, by route
Operations == {"health", "unhandled-exception", "handled-exception", "sql-error",
               "timeout", "cpu-spike", "memory-spike", "dependency-failure",
               "serialization-error", "auth-failure", "forbidden", "slow-response"}

\* the environment of one request: the downstream call's fate, the number
\* of 10 MB blocks the heap can give, and how the stopwatch advances between
\* two readings inside the busy loop (clockStep) and after it (clockLag)
ClockSteps == {TicksPerSecond, 3 * TicksPerSecond - 1, 7500001}
ClockLags == {0, 12345}
FreeBlocks == {BlockCount, 20}
DefaultEnv == [downstream |-> "refused", freeBlocks |-> BlockCount,
               clockStep |-> TicksPerSecond, clockLag |-> 0]
Envs(op) ==
    CASE op = "dependency-failure" ->
            {[DefaultEnv EXCEPT !.downstream = d] : d \in DownstreamOutcomes}
      [] op = "memory-spike" ->
            {[DefaultEnv EXCEPT !.freeBlocks = n] : n \in FreeBlocks}
      [] op = "cpu-spike" ->
            {[DefaultEnv EXCEPT !.clockStep = s, !.clockLag = l] :
                s \in ClockSteps, l \in ClockLags}
      [] OTHER -> {DefaultEnv}
AllEnvs == UNION {Envs(op) : op \in Operations}

\* app.MapControllers(): the endpoint the route selects
MapControllers(op, trc, parent, env) ==
    CASE op = "health" -> HealthGet(trc, parent)
      [] op = "unhandled-exception" -> UnhandledException(trc, parent)
      [] op = "handled-exception" -> HandledException(trc, parent)
      [] op = "sql-error" -> SqlError(trc, parent)
      [] op = "timeout" -> Timeout(trc, parent)
      [] op = "cpu-spike" -> CpuSpike(trc, parent, env.clockStep, env.clockLag)
      [] op = "memory-spike" -> MemorySpike(trc, parent, env.freeBlocks)
      [] op = "dependency-failure" -> DependencyFailure(trc, parent, env.downstream)
      [] op = "serialization-error" -> SerializationError(trc, parent)
      [] op = "auth-failure" -> AuthFailure(trc, parent)
      [] op = "forbidden" -> Forbidden(trc, parent)
      [] op = "slow-response" -> SlowResponse(trc, parent)

(***************************************************************************)
(* Backend: the global exception handler of Program.cs.                    *)
(***************************************************************************)
\* variant: the middleware sets the status and writes no body
GlobalHandlerCatch_NoBody(t, parent) ==
    Returned(500, NoBody, t.span, Append(t.log, LogError(t.exc, "middleware")))

\* variant: the middleware answers without logging the exception
GlobalHandlerCatch_NoLog(t, parent) ==
    LET activity == parent
        s1 == SetStatusError(activity, t.span)
        s2 == AddExceptionEvent(activity, s1, t.exc)
    IN  [Returned(500, Envelope(t.exc.name, t.exc.message, TraceIdString(activity)),
                  s2, t.log)
            EXCEPT !.steps = <<"SetStatus", "AddEvent", "StatusCode", "WriteAsJson">>]

\* variant: no activity is current once the handler's span is disposed
GlobalHandlerCatch_NoCurrentActivity(t, parent) ==
    LET activity == NoActivity
        s1 == SetStatusError(activity, t.span)
        s2 == AddExceptionEvent(activity, s1, t.exc)
    IN  [Returned(500, Envelope(t.exc.name, t.exc.message, TraceIdString(activity)),
                  s2, Append(t.log, LogError(t.exc, "middleware")))
            EXCEPT !.steps = <<"SetStatus", "AddEvent", "Log.Error", "StatusCode",
                               "WriteAsJson">>]

\* catch (Exception ex) of the middleware: Activity.Current is the request
\* activity again, the handler's span having been disposed. steps lists
\* the statements of the block in the order they run
GlobalHandlerCatch(t, parent) ==
    LET activity == parent
        s1 == SetStatusError(activity, t.span)
        s2 == AddExceptionEvent(activity, s1, t.exc)
    IN  [Returned(500, Envelope(t.exc.name, t.exc.message, TraceIdString(activity)),
                  s2, Append(t.log, LogError(t.exc, "middleware")))
            EXCEPT !.steps = <<"SetStatus", "AddEvent", "Log.Error", "StatusCode",
                               "WriteAsJson">>]

\* app.Use(async (context, next) => { try { await next(context); } catch ... })
GlobalExceptionHandler(op, trc, parent, env) ==
    LET next == MapControllers(op, trc, parent, env)
    IN  TryCatch(next, GlobalHandlerCatch(next, parent), "middleware")

\* variant: a static counter of the requests served, only the first of
\* which is let through
Pipeline_RequestCounter(op, trc, r, env) ==
    IF r > 1
    THEN Returned(429, Envelope("TooManyRequests", "Too many requests",
                                TraceIdString(AmbientActivity(trc, r))),
                  NoSpanData, <<>>)
    ELSE GlobalExceptionHandler(op, trc, AmbientActivity(trc, r), env)

\* the whole pipeline for request r
Pipeline(op, trc, r, env) ==
    GlobalExceptionHandler(op, trc, AmbientActivity(trc, r), env)

(***************************************************************************)
(* Frontend: ErrorService.                                                 *)
(***************************************************************************)
\* A string is the sequence of its parts: 'http://localhost:5215/api' is
\* <<"http://localhost:5215", "/api">>, the empty string is <<>>.
VARIABLE windowEnv      \* window.env, as env.js left it before the scripts ran

\* window.env is absent, or an object whose API_URL may be missing
NoWindowEnv == [present |-> FALSE, API_URL |-> [defined |-> FALSE, text |-> <<>>]]
WindowEnvWithoutApiUrl == [present |-> TRUE, API_URL |-> [defined |-> FALSE, text |-> <<>>]]
WindowEnv(url) == [present |-> TRUE, API_URL |-> [defined |-> TRUE, text |-> url]]
\* no env.js; env.js without API_URL; API_URL with and without the /api
\* prefix; API_URL substituted by an empty string
WindowEnvs ==
    {NoWindowEnv, WindowEnvWithoutApiUrl, WindowEnv(<<"http://localhost:5215">>),
     WindowEnv(<<"http://localhost:5215", "/api">>), WindowEnv(<<>>)}

\* undefined and '' are falsy
TruthyString(v) == v.defined /\ v.text # <<>>
\* undefined + '.*' is 'undefined.*'
StringOf(v) == IF v.defined THEN v.text ELSE <<"undefined">>

\* (window as any).env?.API_URL || 'http://localhost:5215/api'
API_BASE ==
    IF windowEnv.present /\ TruthyString(windowEnv.API_URL)
    THEN windowEnv.API_URL.text
    ELSE <<"http://localhost:5215", "/api">>

\* the URL each method of ErrorService requests
ErrorServiceUrl(svc) ==
    CASE svc = "healthCheck" -> [base |-> API_BASE, path |-> <<"health">>]
      [] svc = "unhandledException" -> [base |-> API_BASE, path |-> <<"errors", "unhandled-exception">>]
      [] svc = "handledException" -> [base |-> API_BASE, path |-> <<"errors", "handled-exception">>]
      [] svc = "sqlError" -> [base |-> API_BASE, path |-> <<"errors", "sql-error">>]
      [] svc = "timeout" -> [base |-> API_BASE, path |-> <<"errors", "timeout">>]
      [] svc = "cpuSpike" -> [base |-> API_BASE, path |-> <<"errors", "cpu-spike">>]
      [] svc = "memorySpike" -> [base |-> API_BASE, path |-> <<"errors", "memory-spike">>]
      [] svc = "dependencyFailure" -> [base |-> API_BASE, path |-> <<"errors", "dependency-failure">>]
      [] svc = "serializationError" -> [base |-> API_BASE, path |-> <<"errors", "serialization-error">>]
      [] svc = "authFailure" -> [base |-> API_BASE, path |-> <<"errors", "auth-failure">>]
      [] svc = "forbidden" -> [base |-> API_BASE, path |-> <<"errors", "forbidden">>]
      [] svc = "slowResponse" -> [base |-> API_BASE, path |-> <<"errors", "slow-response">>]
      [] svc = "simulateNetworkFailure" -> [base |-> <<"http://localhost:9999">>, path |-> <<"does-not-exist">>]
      [] svc = "simulateCorsFailure" -> [base |-> <<"https://www.google.com">>, path |-> <<>>]

\* [Route("api/[controller]")] / [Route("api/errors")] + [HttpGet("...")]
NoRoute == "<no route>"
RouteOf(url) ==
    IF url.path = <<"health">> THEN "health"
    ELSE IF Len(url.path) = 2 /\ url.path[1] = "errors" THEN url.path[2]
    ELSE NoRoute

\* the address the API listens on, with the route prefix of its controllers
BackendAddress == <<"http://localhost:5215", "/api">>
\* the request goes to the API at all
IsBackendUrl(url) == url.base = BackendAddress

\* tracing.ts: const env = window.env || { API_URL: 'http://localhost:5215', ... }
tracingEnv == IF windowEnv.present THEN windowEnv ELSE WindowEnv(<<"http://localhost:5215">>)
\* new RegExp(env.API_URL + '.*'): the text the pattern starts with
propagateTraceHeaderCorsUrls == StringOf(tracingEnv.API_URL)
\* RegExp.test is not anchored: pattern + '.*' matches when the pattern's
\* text occurs anywhere in the string
RegExpTest(pattern, str) ==
    \E i \in 1..(Len(str) + 1) :
        /\ i + Len(pattern) - 1 <= Len(str)
        /\ SubSeq(str, i, i + Len(pattern) - 1) = pattern
UrlString(url) == url.base \o url.path
\* the fetch instrumentation adds the traceparent header to a cross-origin
\* request only when its URL matches the allowlist
PropagatesTraceHeader(url) == RegExpTest(propagateTraceHeaderCorsUrls, UrlString(url))

\* JavaScript values that can be thrown or be a rejection reason
JsError(name, message) == [kind |-> "Error", name |-> name, message |-> message]
JsString == [kind |-> "string", name |-> "", message |-> ""]
JsNull == [kind |-> "null", name |-> "", message |-> ""]
JsUndefined == [kind |-> "undefined", name |-> "", message |-> ""]
NoThrow == [kind |-> "<nothing thrown>", name |-> "", message |-> ""]
NoTask == [type |-> "<none>", target |-> "null", value |-> NoThrow, occ |-> 0]

\* what a synchronous client-side simulation does: the value it throws, and
\* the browser event its side effect leads to
ErrorServiceSimulate(svc) ==
    CASE svc = "simulateJsException" ->
            [threw |-> JsError("TypeError", "Cannot read properties of undefined (reading 'property')"),
             task |-> NoTask]
      [] svc = "simulatePromiseRejection" ->
            [threw |-> NoThrow,
             task |-> [type |-> "unhandledrejection", target |-> "window",
                       value |-> JsError("Error", "Simulated unhandled promise rejection"),
                       occ |-> 0]]
      [] svc = "simulateJsonParseError" ->
            [threw |-> JsError("SyntaxError", "Expected property name or '}' in JSON at position 1"),
             task |-> NoTask]
      [] svc = "simulateResourceLoadFailure" ->
            [threw |-> NoThrow,
             task |-> [type |-> "error", target |-> "IMG", value |-> JsUndefined, occ |-> 0]]

(***************************************************************************)
(* Frontend: AppComponent.                                                 *)
(***************************************************************************)
ActionButton(id, type, run, arg, svc) ==
    [id |-> id, type |-> type, status |-> "idle", response |-> Undefined,
     action |-> [run |-> run, id |-> arg, svc |-> svc]]

clientActionsInit == <<
    ActionButton("js-exception", "client", "runClient", "js-exception", "simulateJsException"),
    ActionButton("promise-rejection", "client", "runClient", "promise-rejection", "simulatePromiseRejection"),
    ActionButton("network-failure", "client", "runHttp", "network-failure", "simulateNetworkFailure"),
    ActionButton("cors-failure", "client", "runHttp", "cors-failure", "simulateCorsFailure"),
    ActionButton("json-parse", "client", "runClient", "json-parse", "simulateJsonParseError"),
    ActionButton("resource-load", "client", "runClient", "resource-load", "simulateResourceLoadFailure") >>

serverActionsInit == <<
    ActionButton("health", "server", "runHttp", "health", "healthCheck"),
    ActionButton("unhandled", "server", "runHttp", "unhandled", "unhandledException"),
    ActionButton("handled", "server", "runHttp", "handled", "handledException"),
    ActionButton("sql", "server", "runHttp", "sql", "sqlError"),
    ActionButton("timeout", "server", "runHttp", "timeout", "timeout"),
    ActionButton("cpu", "server", "runHttp", "cpu", "cpuSpike"),
    ActionButton("memory", "server", "runHttp", "memory", "memorySpike"),
    ActionButton("dependency", "server", "runHttp", "dependency", "dependencyFailure"),
    ActionButton("serialization", "server", "runHttp", "serialization", "serializationError"),
    ActionButton("auth", "server", "runHttp", "auth", "authFailure"),
    ActionButton("forbidden", "server", "runHttp", "forbidden", "forbidden"),
    ActionButton("slow", "server", "runHttp", "slow", "slowResponse") >>

\* Array.prototype.find: the index of the first element with that id, 0 if none
FindIndex(list, id) ==
    IF \E i \in 1..Len(list) : list[i].id = id
    THEN CHOOSE i \in 1..Len(list) :
            list[i].id = id /\ \A j \in 1..(i - 1) : list[j].id # id
    ELSE 0

\* variant: find(a => a.id = id), an assignment for the comparison, which
\* selects the first descriptor whatever the id
findButton_FirstDescriptor(cmp, id) == [list |-> "clientActions", idx |-> 1]

\* clientActions.find(...) || serverActions.find(...)
NotFound == [list |-> "none", idx |-> 0]
findButton(cmp, id) ==
    IF FindIndex(cmp.clientActions, id) # 0
    THEN [list |-> "clientActions", idx |-> FindIndex(cmp.clientActions, id)]
    ELSE IF FindIndex(cmp.serverActions, id) # 0
         THEN [list |-> "serverActions", idx |-> FindIndex(cmp.serverActions, id)]
         ELSE NotFound

\* every descriptor of the component, client list first
AllButtons(cmp) == cmp.clientActions \o cmp.serverActions
ButtonIds == {clientActionsInit[i].id : i \in 1..Len(clientActionsInit)}
                \cup {serverActionsInit[i].id : i \in 1..Len(serverActionsInit)}

\* cdr.detectChanges(): the view shows what the descriptors hold
detectChanges(cmp) ==
    [cmp EXCEPT !.rendered =
        [id \in ButtonIds |->
            LET all == AllButtons(cmp)
            IN  IF FindIndex(all, id) = 0 THEN "idle" ELSE all[FindIndex(all, id)].status]]

\* variant: the descriptor is written and the view is not refreshed
setStatus_NoDetectChanges(cmp, id, status, response) ==
    LET btn == findButton(cmp, id)
    IN  IF btn = NotFound THEN cmp
        ELSE LET c1 == IF btn.list = "clientActions"
                       THEN [cmp EXCEPT !.clientActions[btn.idx].status = status,
                                        !.clientActions[btn.idx].response = response]
                       ELSE [cmp EXCEPT !.serverActions[btn.idx].status = status,
                                        !.serverActions[btn.idx].response = response]
             IN  [c1 EXCEPT !.hist[id] = Append(@, status)]

\* setStatus(id, status, response); hist keeps, per descriptor, the statuses
\* it has been given
setStatus(cmp, id, status, response) ==
    LET btn == findButton(cmp, id)
    IN  IF btn = NotFound THEN cmp
        ELSE LET c1 == IF btn.list = "clientActions"
                       THEN [cmp EXCEPT !.clientActions[btn.idx].status = status,
                                        !.clientActions[btn.idx].response = response]
                       ELSE [cmp EXCEPT !.serverActions[btn.idx].status = status,
                                        !.serverActions[btn.idx].response = response]
                 c2 == [c1 EXCEPT !.hist[id] = Append(@, status)]
             IN  detectChanges(c2)

\* runClient(id, fn): the component afterwards, and the exception rethrown
\* variant: a fault that returns without throwing counts as success
runClient_SuccessOnReturn(cmp, id, svc) ==
    LET c1 == setStatus(cmp, id, "loading", Undefined)
        fn == ErrorServiceSimulate(svc)
    IN  IF fn.threw = NoThrow
        THEN [cmp |-> setStatus(c1, id, "success", Undefined),
              threw |-> NoThrow, task |-> fn.task]
        ELSE [cmp |-> setStatus(c1, id, "error", <<fn.threw.message>>),
              threw |-> fn.threw, task |-> fn.task]

runClient(cmp, id, svc) ==
    LET c1 == setStatus(cmp, id, "loading", Undefined)
        fn == ErrorServiceSimulate(svc)
    IN  IF fn.threw = NoThrow
        THEN [cmp |-> setStatus(c1, id, "error", <<"Exception thrown (check Jaeger)">>),
              threw |-> NoThrow, task |-> fn.task]
        ELSE [cmp |-> setStatus(c1, id, "error", <<fn.threw.message>>),
              threw |-> fn.threw, task |-> fn.task]

\* a string-valued field is truthy (neither undefined nor empty); the same
\* for a traceId field (neither null nor undefined)
Truthy(v) == v \notin {NoField, ""}
TruthyId(v) == v \notin {Null, Absent}

\* JSON.stringify(res).substring(0, 100)
JsonStringify(res) == <<"{", res.status, res.message, res.data, "}">>

\* HttpClient: what the observable emits for a response / a failed request
\* variant: every response that arrives is emitted on next, whatever its status
HttpResponse_AlwaysNext(status, body) ==
    [channel |-> "next", res |-> body, message |-> ""]

HttpResponse(status, body) ==
    IF status >= 200 /\ status < 300
    THEN [channel |-> "next", res |-> body, message |-> ""]
    ELSE [channel |-> "error", res |-> body,
          message |-> "Http failure response"]
HttpFailure ==
    [channel |-> "error", res |-> [NoBody EXCEPT !.message = "Failed to fetch"],
     message |-> "Http failure response: 0 Unknown Error"]

\* variant: runHttp subscribes without setting the status to loading
runHttpSubscribe_NoLoading(cmp, id) == cmp

\* runHttp(id, obs), first half: loading, then subscribe
runHttpSubscribe(cmp, id) == setStatus(cmp, id, "loading", Undefined)

\* runHttp(id, obs), the next / error callbacks
runHttpNext(cmp, id, res) ==
    LET traceId == IF TruthyId(res.traceId) THEN res.traceId ELSE Null
    IN  setStatus(cmp, id, "success",
                  IF TruthyId(traceId) THEN <<"TraceId: ", traceId>>
                  ELSE JsonStringify(res))

\* variant: the error callback shows the message alone
runHttpError_MessageOnly(cmp, id, err) ==
    LET msg == IF Truthy(err.res.message) THEN err.res.message
               ELSE IF Truthy(err.message) THEN err.message
               ELSE "Request failed"
    IN  setStatus(cmp, id, "error", <<msg>>)

runHttpError(cmp, id, err) ==
    LET msg == IF Truthy(err.res.message) THEN err.res.message
               ELSE IF Truthy(err.message) THEN err.message
               ELSE "Request failed"
        traceId == IF TruthyId(err.res.traceId) THEN err.res.traceId ELSE Null
    IN  setStatus(cmp, id, "error",
                  IF TruthyId(traceId) THEN <<msg, " | TraceId: ", traceId>>
                  ELSE <<msg>>)

\* variant: subscribe(next) alone, a failed request calls nothing
runHttpCallback_NextOnly(cmp, id, emitted) ==
    IF emitted.channel = "next" THEN runHttpNext(cmp, id, emitted.res)
    ELSE cmp

runHttpCallback(cmp, id, emitted) ==
    IF emitted.channel = "next" THEN runHttpNext(cmp, id, emitted.res)
    ELSE runHttpError(cmp, id, emitted)

(***************************************************************************)
(* Frontend: GlobalErrorHandler.                                           *)
(***************************************************************************)
\* String(error) for a value without a usable message
JsToString(v) ==
    CASE v.kind = "null" -> "null"
      [] v.kind = "undefined" -> "undefined"
      [] v.kind = "string" -> "a string"
      [] OTHER -> v.name

Span(name, message, recorded, ended, occ) ==
    [name |-> name, message |-> message, exception |-> recorded,
     ended |-> ended, occ |-> occ]

\* the 'unhandledrejection' listener: error?.message || String(error)
onUnhandledRejection(spanLog, event) ==
    LET error == event.value
        message == IF error.kind \in {"null", "undefined"} THEN JsToString(error)
                   ELSE IF Truthy(error.message) THEN error.message
                   ELSE JsToString(error)
    IN  Append(spanLog, Span("unhandled-promise-rejection", message,
                             error.kind = "Error", TRUE, event.occ))

\* variant: the tag name compared in lower case, which no element matches
onError_LowerCaseTags(spanLog, event) ==
    IF event.target # "null" /\ event.target # "window" /\ event.target \in {"img", "script", "link"}
    THEN Append(spanLog, Span("resource-load-failure", "Failed to load", FALSE, TRUE, event.occ))
    ELSE spanLog

\* variant: no test of the tag name, every element's error event is reported
onError_AnyElement(spanLog, event) ==
    IF event.target # "null" /\ event.target # "window"
    THEN Append(spanLog, Span("resource-load-failure", "Failed to load", FALSE, TRUE, event.occ))
    ELSE spanLog

\* neither listener calls event.preventDefault()
onErrorPreventsDefault(event) == FALSE
onUnhandledRejectionPreventsDefault(event) == FALSE

\* the 'error' listener (capture phase): resource load errors only
ResourceTags == {"IMG", "SCRIPT", "LINK"}
onError(spanLog, event) ==
    IF event.target # "null" /\ event.target # "window" /\ event.target \in ResourceTags
    THEN Append(spanLog, Span("resource-load-failure", "Failed to load", FALSE, TRUE, event.occ))
    ELSE spanLog

\* handleError(error): error.message on null or undefined is a TypeError,
\* thrown after startSpan and before span.end()
handleError(spanLog, taskQueue, error, occ) ==
    IF error.kind \in {"null", "undefined"}
    THEN [spans |-> Append(spanLog, Span("uncaught-error", "", FALSE, FALSE, occ)),
          tasks |-> taskQueue,
          threw |-> JsError("TypeError", "Cannot read properties of null (reading 'message')")]
    ELSE [spans |-> Append(spanLog,
                           Span("uncaught-error",
                                IF Truthy(error.message) THEN error.message ELSE "Unknown error",
                                TRUE, TRUE, occ)),
          tasks |-> Append(taskQueue, [type |-> "timer", target |-> "window",
                                       value |-> error, occ |-> occ]),
          threw |-> NoThrow]

\* the listeners of one kind, each called once with the event
RECURSIVE CallListeners(_, _, _, _)
CallListeners(n, type, spanLog, event) ==
    IF n = 0 THEN spanLog
    ELSE CallListeners(n - 1, type,
                       IF type = "unhandledrejection" THEN onUnhandledRejection(spanLog, event)
                       ELSE onError(spanLog, event),
                       event)

\* window.dispatchEvent: a timer that throws is reported as an 'error'
\* event whose target is the window
dispatchEvent(spanLog, event, nRejection, nError) ==
    IF event.type = "unhandledrejection"
    THEN CallListeners(nRejection, "unhandledrejection", spanLog, event)
    ELSE CallListeners(nError, "error", spanLog, event)

\* event.defaultPrevented after the listeners have run
defaultPrevented(event, nRejection, nError) ==
    IF event.type = "unhandledrejection"
    THEN nRejection > 0 /\ onUnhandledRejectionPreventsDefault(event)
    ELSE nError > 0 /\ onErrorPreventsDefault(event)

(***************************************************************************)
(* The system: one browser page and the API behind it.                     *)
(***************************************************************************)
VARIABLES
    clientActions,      \* AppComponent.clientActions
    serverActions,      \* AppComponent.serverActions
    rendered,           \* the status the view shows for each descriptor
    hist,               \* per descriptor id, the statuses given by setStatus
    clicks,             \* number of button clicks so far
    req,                \* the HTTP requests issued by the page
    tasks,              \* browser events and timers waiting to be dispatched
    spans,              \* the spans started by GlobalErrorHandler
    occurrences,        \* the errors that occurred in the page
    console,            \* the occurrences the browser itself has reported
    rejectionListeners, \* 'unhandledrejection' listeners on window
    errorListeners      \* 'error' listeners on window

vars == <<clientActions, serverActions, rendered, hist, clicks, req, tasks,
          spans, occurrences, console, rejectionListeners, errorListeners, windowEnv>>

frontendVars == <<clientActions, serverActions, rendered, hist>>
handlerVars == <<tasks, spans, occurrences, console>>
listenerVars == <<rejectionListeners, errorListeners>>

\* the component as one value, and its assignment back to the variables
cmp == [clientActions |-> clientActions, serverActions |-> serverActions,
        rendered |-> rendered, hist |-> hist]
SetComponent(c) ==
    /\ clientActions' = c.clientActions
    /\ serverActions' = c.serverActions
    /\ rendered' = c.rendered
    /\ hist' = c.hist

ErrorValues == {JsError("Error", "boom"), JsString, JsNull, JsUndefined}
EventTargets == ResourceTags \cup {"VIDEO", "window", "null"}

NoOutcome == [kind |-> "none", status |-> 0, body |-> NoBody, exc |-> NoExc,
              raised |-> 0, caught |-> <<>>, span |-> NoSpanData, log |-> <<>>, responses |-> 0,
              mem |-> NoMem, steps |-> <<>>]

PageOccurrences == Cardinality({o \in 1..Len(occurrences) : occurrences[o].src = "page"})

\* bootstrap: the catalog as written, GlobalErrorHandler constructed once
PageInit ==
    /\ clientActions = clientActionsInit
    /\ serverActions = serverActionsInit
    /\ rendered = [id \in ButtonIds |-> "idle"]
    /\ hist = [id \in ButtonIds |-> <<"idle">>]
    /\ clicks = 0
    /\ req = <<>>
    /\ tasks = <<>>
    /\ spans = <<>>
    /\ occurrences = <<>>
    /\ console = <<>>
    /\ rejectionListeners = 1
    /\ errorListeners = 1

\* the page as served by ng serve: no env.js has set window.env
Init == PageInit /\ windowEnv = NoWindowEnv

\* new GlobalErrorHandler(): two more addEventListener calls
Construct ==
    /\ rejectionListeners < 1 + MaxConstructions
    /\ rejectionListeners' = rejectionListeners + 1
    /\ errorListeners' = errorListeners + 1
    /\ UNCHANGED <<frontendVars, clicks, req, handlerVars, windowEnv>>

\* a click on a button whose action calls runClient; what it throws reaches
\* ErrorHandler.handleError in the same turn
ClickRunClient(list, i) ==
    /\ clicks + PageOccurrences < MaxEvents
    /\ i \in 1..Len(cmp[list])
    /\ cmp[list][i].action.run = "runClient"
    /\ LET b == cmp[list][i]
           out == runClient(cmp, b.action.id, b.action.svc)
           occ == Len(occurrences) + 1
       IN  /\ SetComponent(out.cmp)
           /\ IF out.threw # NoThrow
              THEN LET h == handleError(spans, tasks, out.threw, occ)
                   IN  /\ spans' = h.spans
                       /\ tasks' = h.tasks
                       /\ occurrences' = Append(occurrences,
                                                [kind |-> "exception", src |-> b.id])
              ELSE /\ spans' = spans
                   /\ tasks' = Append(tasks, [out.task EXCEPT !.occ = occ])
                   /\ occurrences' = Append(occurrences,
                                            [kind |-> IF out.task.type = "unhandledrejection"
                                                      THEN "rejection" ELSE "resource",
                                             src |-> b.id])
    /\ clicks' = clicks + 1
    /\ UNCHANGED <<req, console, listenerVars, windowEnv>>

\* variant: a new invocation unsubscribes from the requests of the same
\* action that are still outstanding (switchMap)
ClickRunHttp_SwitchMap(list, i) ==
    /\ clicks + PageOccurrences < MaxEvents
    /\ i \in 1..Len(cmp[list])
    /\ cmp[list][i].action.run = "runHttp"
    /\ LET b == cmp[list][i]
           c1 == runHttpSubscribe(cmp, b.action.id)
           kept == [r \in 1..Len(req) |->
                      IF req[r].button = b.id /\ req[r].pc \notin {"done", "failed"}
                      THEN [req[r] EXCEPT !.pc = "cancelled"] ELSE req[r]]
       IN  /\ SetComponent(c1)
           /\ req' = Append(kept, [button |-> b.id, action |-> b.action.id,
                                   url |-> ErrorServiceUrl(b.action.svc),
                                   traceparent |-> PropagatesTraceHeader(ErrorServiceUrl(b.action.svc)),
                                   pc |-> "sent", trc |-> "off", env |-> DefaultEnv,
                                   res |-> NoOutcome,
                                   sentAt |-> Len(c1.hist[b.id]), doneAt |-> 0])
    /\ clicks' = clicks + 1
    /\ UNCHANGED <<handlerVars, listenerVars, windowEnv>>

\* a click on a button whose action calls runHttp: loading, then the request
ClickRunHttp(list, i) ==
    /\ clicks + PageOccurrences < MaxEvents
    /\ i \in 1..Len(cmp[list])
    /\ cmp[list][i].action.run = "runHttp"
    /\ LET b == cmp[list][i]
           c1 == runHttpSubscribe(cmp, b.action.id)
       IN  /\ SetComponent(c1)
           /\ req' = Append(req, [button |-> b.id, action |-> b.action.id,
                                  url |-> ErrorServiceUrl(b.action.svc),
                                  traceparent |-> PropagatesTraceHeader(ErrorServiceUrl(b.action.svc)),
                                  pc |-> "sent", trc |-> "off", env |-> DefaultEnv,
                                  res |-> NoOutcome,
                                  sentAt |-> Len(c1.hist[b.id]), doneAt |-> 0])
    /\ clicks' = clicks + 1
    /\ UNCHANGED <<handlerVars, listenerVars, windowEnv>>

\* the request reaches the API and its handler starts: the hosting layer
\* decides how it is traced, env is what the handler will meet
BackendReceive(r, trc, env) ==
    /\ r \in 1..Len(req)
    /\ req[r].pc = "sent"
    /\ IsBackendUrl(req[r].url)
    /\ env \in Envs(RouteOf(req[r].url))
    /\ req' = [req EXCEPT ![r].pc = "running", ![r].trc = trc, ![r].env = env]
    /\ UNCHANGED <<frontendVars, clicks, handlerVars, listenerVars, windowEnv>>

\* variant: one request at a time, a handler runs only when every request
\* received before it has been answered
BackendRespond_OneAtATime(r) ==
    /\ r \in 1..Len(req)
    /\ req[r].pc = "running"
    /\ \A q \in 1..(r - 1) : req[q].pc # "running"
    /\ Pipeline(RouteOf(req[r].url), req[r].trc, r, req[r].env).kind # "pending"
    /\ req' = [req EXCEPT ![r].pc = "responded",
                          ![r].res = Pipeline(RouteOf(req[r].url), req[r].trc, r, req[r].env)]
    /\ UNCHANGED <<frontendVars, clicks, handlerVars, listenerVars, windowEnv>>

\* the pipeline runs to its response, unless it awaits something that never
\* completes
BackendRespond(r) ==
    /\ r \in 1..Len(req)
    /\ req[r].pc = "running"
    /\ Pipeline(RouteOf(req[r].url), req[r].trc, r, req[r].env).kind # "pending"
    /\ req' = [req EXCEPT ![r].pc = "responded",
                          ![r].res = Pipeline(RouteOf(req[r].url), req[r].trc, r, req[r].env)]
    /\ UNCHANGED <<frontendVars, clicks, handlerVars, listenerVars, windowEnv>>

\* the response arrives: the subscriber's next or error callback
HttpDeliver(r) ==
    /\ r \in 1..Len(req)
    /\ req[r].pc = "responded"
    /\ LET c1 == runHttpCallback(cmp, req[r].action,
                                 HttpResponse(req[r].res.status, req[r].res.body))
       IN  /\ SetComponent(c1)
           /\ req' = [req EXCEPT ![r].pc = "done",
                                 ![r].doneAt = Len(c1.hist[req[r].button])]
    /\ UNCHANGED <<clicks, handlerVars, listenerVars, windowEnv>>

\* the request fails without a response (unreachable host, blocked by CORS,
\* API down): the subscriber's error callback
HttpFail(r) ==
    /\ r \in 1..Len(req)
    /\ req[r].pc = "sent"
    /\ LET c1 == runHttpCallback(cmp, req[r].action, HttpFailure)
       IN  /\ SetComponent(c1)
           /\ req' = [req EXCEPT ![r].pc = "failed",
                                 ![r].doneAt = Len(c1.hist[req[r].button])]
    /\ UNCHANGED <<clicks, handlerVars, listenerVars, windowEnv>>

\* the browser dispatches the oldest waiting event or timer, and reports it
\* itself unless a listener prevented that
DispatchTask ==
    /\ tasks # <<>>
    /\ spans' = dispatchEvent(spans, Head(tasks), rejectionListeners, errorListeners)
    /\ console' = IF defaultPrevented(Head(tasks), rejectionListeners, errorListeners)
                  THEN console
                  ELSE Append(console, Head(tasks).occ)
    /\ tasks' = Tail(tasks)
    /\ UNCHANGED <<frontendVars, clicks, req, occurrences, listenerVars, windowEnv>>

\* other code of the page: an exception Angular hands to handleError
PageHandleError(v) ==
    /\ clicks + PageOccurrences < MaxEvents
    /\ v \in ErrorValues
    /\ LET h == handleError(spans, tasks, v, Len(occurrences) + 1)
       IN  /\ spans' = h.spans
           /\ tasks' = h.tasks
    /\ occurrences' = Append(occurrences, [kind |-> "exception", src |-> "page"])
    /\ UNCHANGED <<frontendVars, clicks, req, console, listenerVars, windowEnv>>

\* other code of the page: a promise rejected with v and never handled
PageRejection(v) ==
    /\ clicks + PageOccurrences < MaxEvents
    /\ v \in ErrorValues
    /\ tasks' = Append(tasks, [type |-> "unhandledrejection", target |-> "window",
                               value |-> v, occ |-> Len(occurrences) + 1])
    /\ occurrences' = Append(occurrences, [kind |-> "rejection", src |-> "page"])
    /\ UNCHANGED <<frontendVars, clicks, req, spans, console, listenerVars, windowEnv>>

\* other code of the page: an 'error' event on an element or on the window
PageErrorEvent(t) ==
    /\ clicks + PageOccurrences < MaxEvents
    /\ t \in EventTargets
    /\ tasks' = Append(tasks, [type |-> "error", target |-> t,
                               value |-> JsUndefined, occ |-> Len(occurrences) + 1])
    /\ occurrences' = Append(occurrences,
                             [kind |-> IF t \in ResourceTags THEN "resource" ELSE "other",
                              src |-> "page"])
    /\ UNCHANGED <<frontendVars, clicks, req, spans, console, listenerVars, windowEnv>>

Next ==
    \/ Construct
    \/ \E list \in {"clientActions", "serverActions"} : \E i \in 1..12 :
          ClickRunClient(list, i)
    \/ \E list \in {"clientActions", "serverActions"} : \E i \in 1..12 :
          ClickRunHttp(list, i)
    \/ \E r \in 1..Len(req) : \E trc \in TraceModes : \E env \in AllEnvs :
          BackendReceive(r, trc, env)
    \/ \E r \in 1..Len(req) : BackendRespond(r)
    \/ \E r \in 1..Len(req) : HttpDeliver(r)
    \/ \E r \in 1..Len(req) : HttpFail(r)
    \/ DispatchTask
    \/ \E v \in ErrorValues : PageHandleError(v)
    \/ \E v \in ErrorValues : PageRejection(v)
    \/ \E t \in EventTargets : PageErrorEvent(t)

Spec == Init /\ [][Next]_vars

(***************************************************************************)
(* Properties of the API.                                                  *)
(***************************************************************************)
Requests == 1..Len(req)
OpOf(r) == RouteOf(req[r].url)
\* the API has answered request r
Responded(r) == req[r].pc \in {"responded", "done"}

\* the body is exactly { error, message, traceId } with error and message set
IsEnvelope(body) ==
    /\ body.error # NoField
    /\ body.message # NoField
    /\ body.traceId # Absent
    /\ body.status = NoField
    /\ body.data = <<>>

LocallyHandledFaults == {"handled-exception", "sql-error", "dependency-failure",
                         "serialization-error"}
DeniedFaults == {"auth-failure", "forbidden"}

DocumentedStatus(op) ==
    CASE op = "handled-exception" -> 500
      [] op = "sql-error" -> 500
      [] op = "dependency-failure" -> 502
      [] op = "serialization-error" -> 500
      [] op = "auth-failure" -> 401
      [] op = "forbidden" -> 403

\* C1: handled-exception, sql-error, dependency-failure, serialization-error,
\* auth-failure and forbidden always answer their documented status (500,
\* 500, 502, 500, 401, 403) with an envelope { error, message, traceId }
\* whose error and message are set.
C1_FaultEndpointsContract ==
    \A r \in Requests :
        (Responded(r) /\ OpOf(r) \in LocallyHandledFaults \cup DeniedFaults) =>
            /\ req[r].res.kind = "result"
            /\ req[r].res.status = DocumentedStatus(OpOf(r))
            /\ IsEnvelope(req[r].res.body)

\* a dependency-failure request cut off by the 5 s timeout has been answered,
\* next to an answered forbidden request
C1_Witness ==
    \E r1, r2 \in Requests :
        /\ Responded(r1) /\ OpOf(r1) = "dependency-failure"
        /\ req[r1].env.downstream = "timedout"
        /\ Responded(r2) /\ OpOf(r2) = "forbidden"

\* C2: unhandled-exception always ends with 500 and the envelope; the
\* action method produces no response, its exception is caught by the
\* middleware alone, which logs it and writes the response.
C2_UnhandledGoesThroughMiddleware ==
    \A r \in Requests :
        (Responded(r) /\ OpOf(r) = "unhandled-exception") =>
            /\ MapControllers(OpOf(r), req[r].trc,
                              AmbientActivity(req[r].trc, r), req[r].env).kind = "throw"
            /\ req[r].res.kind = "result"
            /\ req[r].res.status = 500
            /\ IsEnvelope(req[r].res.body)
            /\ req[r].res.caught = <<"middleware">>

C2_Witness ==
    \E r \in Requests :
        /\ req[r].pc = "done" /\ OpOf(r) = "unhandled-exception"
        /\ req[r].res.body.error = "NullReferenceException"

\* C3: an exception raised in a request is caught by exactly one block, the
\* handler's own catch for handled-exception, sql-error, dependency-failure
\* and serialization-error and the middleware for everything else; every
\* request ends with exactly one response.
C3_CaughtExactlyOnce ==
    \A r \in Requests :
        Responded(r) =>
            /\ req[r].res.kind = "result"
            /\ req[r].res.responses = 1
            /\ req[r].res.raised = 0 => req[r].res.caught = <<>>
            /\ req[r].res.raised > 0 =>
                  /\ Len(req[r].res.caught) = 1
                  /\ req[r].res.caught[1] =
                        IF OpOf(r) \in LocallyHandledFaults THEN "local" ELSE "middleware"

\* one request whose exception its handler caught and one whose exception
\* (a failed allocation in memory-spike) the middleware caught
C3_Witness ==
    \E r1, r2 \in Requests :
        /\ Responded(r1) /\ req[r1].res.caught = <<"local">>
        /\ Responded(r2) /\ OpOf(r2) = "memory-spike"
        /\ req[r2].res.caught = <<"middleware">>

\* C4: whenever the request is traced, the body of every operation's
\* response carries a non-empty traceId.
C4_TraceIdWheneverTraced ==
    \A r \in Requests :
        (Responded(r) /\ req[r].trc # "off") => TruthyId(req[r].res.body.traceId)

\* C5: tracing does not change the answer: two requests for the same
\* operation in the same environment get the same status, error, message
\* and data however each is traced, and an untraced request's traceId is
\* null or missing.
C5_TracingDoesNotChangeTheAnswer ==
    /\ \A r1, r2 \in Requests :
          (Responded(r1) /\ Responded(r2) /\ OpOf(r1) = OpOf(r2)
              /\ req[r1].env = req[r2].env) =>
                /\ req[r1].res.status = req[r2].res.status
                /\ req[r1].res.body.error = req[r2].res.body.error
                /\ req[r1].res.body.message = req[r2].res.body.message
                /\ req[r1].res.body.status = req[r2].res.body.status
                /\ req[r1].res.body.data = req[r2].res.body.data
                /\ (req[r1].res.body.traceId = Absent) = (req[r2].res.body.traceId = Absent)
    /\ \A r \in Requests :
          (Responded(r) /\ req[r].trc = "off") => ~TruthyId(req[r].res.body.traceId)

\* the same locally handled fault answered once untraced and once with a span
C5_Witness ==
    \E r1, r2 \in Requests :
        /\ Responded(r1) /\ Responded(r2)
        /\ OpOf(r1) = "serialization-error" /\ OpOf(r2) = "serialization-error"
        /\ req[r1].trc = "off" /\ req[r2].trc = "span"
        /\ req[r2].res.span.status = "Error"

(***************************************************************************)
(* Properties of the page.                                                 *)
(***************************************************************************)
\* the browser's event loop runs every task that waits in its queue
FairSpec == Spec /\ WF_vars(DispatchTask)

Occurrences == 1..Len(occurrences)
\* the spans started and ended for occurrence o
EndedSpans(o) == {i \in 1..Len(spans) : spans[i].occ = o /\ spans[i].ended}
\* the event of occurrence o has not reached the listeners yet
Pending(o) == \E i \in 1..Len(tasks) : tasks[i].occ = o /\ tasks[i].type # "timer"

\* C6: every unhandled rejection, resource load failure (img, script,
\* link) and uncaught exception is reported by exactly one span that was
\* started and ended: never two, and one as soon as its event has been
\* dispatched.
C6_OneReportPerOccurrence ==
    \A o \in Occurrences :
        occurrences[o].kind \in {"exception", "rejection", "resource"} =>
            /\ Cardinality(EndedSpans(o)) <= 1
            /\ ~Pending(o) => Cardinality(EndedSpans(o)) = 1

\* C7: however often GlobalErrorHandler is constructed, the window has at
\* most one unhandledrejection listener and at most one error listener, and
\* no occurrence is reported twice.
C7_ListenersRegisteredOnce ==
    /\ rejectionListeners <= 1
    /\ errorListeners <= 1
    /\ \A o \in Occurrences : Cardinality(EndedSpans(o)) <= 1

ClientFaultIds == {clientActionsInit[i].id : i \in 1..Len(clientActionsInit)}
\* the client faults whose action goes through runClient
InterceptedFaultIds == {"js-exception", "promise-rejection", "json-parse", "resource-load"}
\* the button has been clicked
Triggered(id) == Len(hist[id]) > 1
\* GlobalErrorHandler has reported (started and ended a span for) an error
\* of that button
ReportedFor(id) ==
    \E i \in 1..Len(spans) : spans[i].ended /\ occurrences[spans[i].occ].src = id
\* nothing waits in the browser and no request is on its way
Quiescent ==
    /\ tasks = <<>>
    /\ \A r \in Requests : req[r].pc \in {"done", "failed"}
NoBackendCallByClientFaults ==
    \A r \in Requests : req[r].button \in ClientFaultIds => ~IsBackendUrl(req[r].url)

RequestsOf(id) == {r \in Requests : req[r].button = id}
\* the clicks on descriptor id
Invocations(id) ==
    Cardinality(RequestsOf(id))
        + Cardinality({o \in Occurrences : occurrences[o].src = id})
LoadingEntries(id) ==
    Cardinality({i \in 2..Len(hist[id]) : hist[id][i] = "loading"})
\* the descriptor was clicked again while a request of an earlier click was
\* still outstanding
Overlapped(id) ==
    \E r1, r2 \in RequestsOf(id) :
        /\ r1 < r2
        /\ req[r1].doneAt = 0 \/ req[r1].doneAt > req[r2].sentAt

\* C9 as stated: a status never returns to idle, becomes loading only by an
\* invocation, and becomes success or error only directly from loading.
C9_OnlyFromLoading ==
    \A id \in ButtonIds :
        /\ LoadingEntries(id) = Invocations(id)
        /\ \A i \in 2..Len(hist[id]) :
              /\ hist[id][i] # "idle"
              /\ hist[id][i] \in {"success", "error"} => hist[id][i - 1] = "loading"

\* C9 amended: a status never returns to idle and becomes loading only by
\* an invocation; it becomes success or error directly from loading unless
\* the action was invoked again while an earlier invocation was outstanding.
C9_OnlyFromLoadingUnlessOverlapped ==
    \A id \in ButtonIds :
        /\ LoadingEntries(id) = Invocations(id)
        /\ \A i \in 2..Len(hist[id]) :
              /\ hist[id][i] # "idle"
              /\ (hist[id][i] \in {"success", "error"} /\ ~Overlapped(id)) =>
                    hist[id][i - 1] = "loading"

\* a descriptor invoked, completed, invoked again and completed again, its
\* invocations never overlapping
C9_Witness ==
    \E id \in ButtonIds :
        /\ Len(hist[id]) = 5 /\ ~Overlapped(id)
        /\ hist[id][3] \in {"success", "error"} /\ hist[id][4] = "loading"
        /\ hist[id][5] \in {"success", "error"} /\ hist[id][5] # hist[id][3]

\* the descriptors, client list first, and what is fixed in each
Catalog == clientActions \o serverActions
FixedPart(b) == [id |-> b.id, type |-> b.type, action |-> b.action]
IdsUnique ==
    \A i, j \in 1..Len(Catalog) : Catalog[i].id = Catalog[j].id => i = j
\* the descriptors whose action or completion callback runs in this step:
\* the button of a request just made or just completed, and the button
\* whose fault just occurred
ActedIds ==
    {req'[r].button : r \in {k \in 1..Len(req') :
        \/ k > Len(req)
        \/ req'[k].pc \in {"done", "failed"} /\ req[k].pc # req'[k].pc}}
    \cup {occurrences'[o].src : o \in (Len(occurrences) + 1)..Len(occurrences')}

\* C10: a step changes only the status and response of the descriptor whose
\* action or completion callback runs in it; the ids of the catalog are
\* unique and no descriptor is added or removed.
C10_OnlyOwnDescriptorChanges ==
    /\ IdsUnique
    /\ [][/\ IdsUnique'
          /\ Len(clientActions') = Len(clientActions)
          /\ Len(serverActions') = Len(serverActions)
          /\ \A k \in 1..Len(Catalog) :
                /\ FixedPart(Catalog'[k]) = FixedPart(Catalog[k])
                /\ Catalog'[k] # Catalog[k] => Catalog[k].id \in ActedIds]_vars

\* a server action has completed with a traceId in its summary while a
\* client action sits in error and every other descriptor is still idle
C10_Witness ==
    \E k \in 1..Len(serverActions) :
        /\ serverActions[k].status = "success"
        /\ Len(serverActions[k].response) = 2
        /\ clientActions[5].status = "error"
        /\ \A j \in 1..Len(Catalog) :
              (j # Len(clientActions) + k /\ j # 5) => Catalog[j].status = "idle"

(***************************************************************************)
(* Properties of the view.                                                 *)
(***************************************************************************)
\* C11: whenever no handler or callback is running, the status the view
\* shows for each descriptor is the status stored in it: every setStatus, in
\* a click handler or in a completion callback, refreshes the view before
\* it returns.
C11_RenderedIsStored ==
    \A k \in 1..Len(Catalog) : rendered[Catalog[k].id] = Catalog[k].status

\* a completion callback has set one server action to success, shown as
\* such, while another descriptor is shown loading
C11_Witness ==
    \E r \in Requests : \E id \in ButtonIds :
        /\ req[r].pc = "done" /\ req[r].doneAt = Len(hist[req[r].button])
        /\ rendered[req[r].button] = "success"
        /\ rendered[id] = "loading"

(***************************************************************************)
(* Properties of the API under load and over time.                         *)
(***************************************************************************)
\* a handler that can continue does continue: the awaited delay or call
\* completes and the runtime runs the rest of the request
\* The page only issues requests: no fault of the page itself.
ServerNext ==
    \/ \E list \in {"clientActions", "serverActions"} : \E i \in 1..12 :
          ClickRunHttp(list, i)
    \/ \E r \in 1..Len(req) : \E trc \in TraceModes : \E env \in AllEnvs :
          BackendReceive(r, trc, env)
    \/ \E r \in 1..Len(req) : BackendRespond(r)
    \/ \E r \in 1..Len(req) : HttpDeliver(r)
    \/ \E r \in 1..Len(req) : HttpFail(r)

ServerFairSpec ==
    Init /\ [][ServerNext]_vars /\ \A r \in 1..MaxEvents : WF_vars(BackendRespond(r))

\* C12: every dependency-failure request that has started is answered: the
\* downstream call fails or is cut off by the 5 s timeout, and the answer is
\* always 502 with the DependencyFailure envelope.
C12_DependencyFailureTerminates ==
    /\ \A r \in 1..MaxEvents :
          (r \in Requests /\ req[r].pc = "running" /\ OpOf(r) = "dependency-failure")
             ~> (r \in Requests /\ Responded(r))
    /\ [](\A r \in Requests :
            (Responded(r) /\ OpOf(r) = "dependency-failure") =>
                /\ req[r].res.status = 502
                /\ IsEnvelope(req[r].res.body)
                /\ req[r].res.body.error = "DependencyFailure")

\* a dependency-failure request whose downstream call got no answer has been
\* cut off, answered 502 and delivered to the page
C12_Witness ==
    \E r \in Requests :
        /\ OpOf(r) = "dependency-failure" /\ req[r].env.downstream = "timedout"
        /\ req[r].pc = "done" /\ req[r].res.status = 502
        /\ req[r].res.exc = NoExc /\ req[r].res.caught = <<"local">>

\* the operations that block or suspend their handler for a fixed time
BlockingOps == {"timeout", "slow-response", "cpu-spike", "memory-spike"}
\* some other request is being held by one of them
OthersBlocked(r) ==
    \E q \in Requests : q # r /\ req[q].pc = "running" /\ OpOf(q) \in BlockingOps

AnsweredAlone(r) == Pipeline(OpOf(r), req[r].trc, 1, req[r].env)

DescriptorOf(id) == Catalog[FindIndex(Catalog, id)]
\* the completion of request r is the last thing written to its descriptor
LastWriter(r) == req[r].doneAt = Len(hist[req[r].button])

\* C15: when a traced request of a server action is answered with an error
\* status, the descriptor ends in error and its response summary ends with
\* the traceId of the envelope, which is the trace id of that request.
C15_FailureShowsTraceId ==
    \A r \in Requests :
        (req[r].pc = "done" /\ LastWriter(r) /\ req[r].trc # "off"
            /\ ~(req[r].res.status >= 200 /\ req[r].res.status < 300)) =>
            LET d == DescriptorOf(req[r].button)
            IN  /\ d.type = "server"
                /\ d.status = "error"
                /\ TruthyId(req[r].res.body.traceId)
                /\ req[r].res.body.traceId = r
                /\ d.response = <<req[r].res.body.message, " | TraceId: ",
                                  req[r].res.body.traceId>>

\* the unhandled-exception action, traced without a span of its handler,
\* shows the traceId the middleware put in its envelope, after memory-spike
\* failed with a trace of its own
C15_Witness ==
    \E q, r \in Requests :
        /\ q < r /\ req[q].pc = "done" /\ req[r].pc = "done"
        /\ OpOf(q) = "memory-spike" /\ req[q].res.status = 500 /\ req[q].trc = "span"
        /\ OpOf(r) = "unhandled-exception" /\ req[r].trc = "ambient"
        /\ DescriptorOf("unhandled").response[3] = r
        /\ DescriptorOf("memory").response[3] = q

(***************************************************************************)
(* Properties of the resource spikes and of the health endpoint.           *)
(***************************************************************************)
\* C16: cpu-spike ends: its busy loop exits at the first stopwatch reading
\* of 3 s or more, the answer is 200 and the durationMs of the body, read
\* from the same stopwatch afterwards, is never below 3000.
C16_CpuSpikeDuration ==
    \A r \in Requests :
        (Responded(r) /\ OpOf(r) = "cpu-spike") =>
            LET exit == BusyWait(req[r].env.clockStep, req[r].env.clockStep)
            IN  /\ ~TotalSecondsBelow(exit, SpikeSeconds)
                /\ TotalSecondsBelow(exit - req[r].env.clockStep, SpikeSeconds)
                /\ req[r].res.kind = "result"
                /\ req[r].res.status = 200
                /\ req[r].res.body.data[1] = "durationMs"
                /\ req[r].res.body.data[2] >= 1000 * SpikeSeconds

\* one cpu-spike whose stopwatch read exactly 3 s at the exit of the loop
\* and reports 3000, and one whose loop overshot by almost 3 s
C16_Witness ==
    \E q, r \in Requests :
        /\ Responded(q) /\ OpOf(q) = "cpu-spike" /\ req[q].res.body.data[2] = 3000
        /\ Responded(r) /\ OpOf(r) = "cpu-spike" /\ req[r].res.body.data[2] > 5999

\* C17: whenever memory-spike answers 200, the allocatedMb of the body is
\* 500, which is what the handler allocated (50 blocks of 10 MB) and what
\* it tagged as memory.allocated_mb on its span, when it has one.
C17_MemorySpikeReportsAllocation ==
    \A r \in Requests :
        (Responded(r) /\ OpOf(r) = "memory-spike" /\ req[r].res.status = 200) =>
            /\ req[r].res.body.data = <<"allocatedMb", 500>>
            /\ req[r].res.mem.allocatedMb = req[r].res.body.data[2]
            /\ req[r].res.mem.allocatedMb * BytesPerMb = BlockCount * BlockBytes
            /\ req[r].res.span.tags =
                  IF req[r].trc = "span"
                  THEN << <<"memory.allocated_mb", req[r].res.body.data[2]>> >>
                  ELSE <<>>

\* memory-spike answered 200 with its span tagged, next to a memory-spike
\* whose 21st allocation failed
C17_Witness ==
    \E q, r \in Requests :
        /\ Responded(q) /\ OpOf(q) = "memory-spike" /\ req[q].res.status = 200
        /\ req[q].trc = "span" /\ Len(req[q].res.span.tags) = 1
        /\ Responded(r) /\ OpOf(r) = "memory-spike" /\ req[r].res.status = 500
        /\ req[r].res.mem.allocatedMb = 200

\* C18: health always answers 200 with status "healthy" and a timestamp,
\* and nothing else but the traceId, which is the request's trace id when
\* the request is traced; it throws nothing, whatever the other requests do.
C18_HealthAlwaysHealthy ==
    \A r \in Requests :
        (Responded(r) /\ OpOf(r) = "health") =>
            /\ req[r].res.kind = "result"
            /\ req[r].res.status = 200
            /\ req[r].res.raised = 0 /\ req[r].res.caught = <<>>
            /\ req[r].res.body.status = "healthy"
            /\ req[r].res.body.data = <<"timestamp">>
            /\ req[r].res.body.error = NoField /\ req[r].res.body.message = NoField
            /\ req[r].res.body.traceId = IF req[r].trc = "off" THEN Null ELSE r

\* health answered, traced by the request activity alone, while an earlier
\* cpu-spike request is still spinning
C18_Witness ==
    \E q, r \in Requests :
        /\ q < r /\ OpOf(q) = "cpu-spike" /\ req[q].pc = "running"
        /\ OpOf(r) = "health" /\ Responded(r) /\ req[r].trc = "ambient"
        /\ req[r].res.body.traceId = r

(***************************************************************************)
(* Properties of the top-level handlers.                                   *)
(***************************************************************************)
\* what the action method of request r did, before the middleware saw it
ControllerOutcome(r) ==
    MapControllers(OpOf(r), req[r].trc, AmbientActivity(req[r].trc, r), req[r].env)
\* the position of statement x in the steps of a block, 0 if it is not there
StepIndex(steps, x) ==
    IF \E i \in 1..Len(steps) : steps[i] = x
    THEN CHOOSE i \in 1..Len(steps) : steps[i] = x
    ELSE 0
MiddlewareLogEntries(r) ==
    {i \in 1..Len(req[r].res.log) : req[r].res.log[i].by = "middleware"}

\* C19: when an exception escapes the action method, the middleware, and
\* only it, answers: it records the error status and an exception event
\* (type, message, stack trace) on the current activity if there is one,
\* writes one error log entry with that exception, and only then sets
\* status 500 and writes the envelope. It does nothing for a request whose
\* action method returned.
C19_MiddlewareLogsThenAnswers ==
    \A r \in Requests :
        Responded(r) =>
            LET inner == ControllerOutcome(r)
                out == req[r].res
            IN  IF inner.kind = "throw"
                THEN /\ out.caught = <<"middleware">>
                     /\ Cardinality(MiddlewareLogEntries(r)) = 1
                     /\ \A i \in MiddlewareLogEntries(r) :
                           out.log[i] = [level |-> "Error", exc |-> inner.exc.name,
                                         by |-> "middleware"]
                     /\ req[r].trc # "off" =>
                           /\ out.span.status = "Error"
                           /\ out.span.events =
                                 << [name |-> "exception", type |-> inner.exc.type,
                                     message |-> inner.exc.message,
                                     stacktrace |-> inner.exc.stack] >>
                     /\ req[r].trc = "off" => out.span = NoSpanData
                     /\ StepIndex(out.steps, "SetStatus") > 0
                     /\ StepIndex(out.steps, "SetStatus") < StepIndex(out.steps, "AddEvent")
                     /\ StepIndex(out.steps, "AddEvent") < StepIndex(out.steps, "Log.Error")
                     /\ StepIndex(out.steps, "Log.Error") < StepIndex(out.steps, "StatusCode")
                     /\ StepIndex(out.steps, "StatusCode") < StepIndex(out.steps, "WriteAsJson")
                     /\ out.status = 500
                     /\ out.body = Envelope(inner.exc.name, inner.exc.message,
                                            IF req[r].trc = "off" THEN Null ELSE r)
                ELSE /\ MiddlewareLogEntries(r) = {}
                     /\ out = inner

\* the middleware answered an untraced unhandled-exception request and a
\* traced memory-spike request whose allocation failed
C19_Witness ==
    \E q, r \in Requests :
        /\ Responded(q) /\ OpOf(q) = "unhandled-exception" /\ req[q].trc = "off"
        /\ Len(req[q].res.log) = 1 /\ req[q].res.span = NoSpanData
        /\ Responded(r) /\ OpOf(r) = "memory-spike" /\ req[r].trc # "off"
        /\ req[r].res.body.error = "OutOfMemoryException"
        /\ Len(req[r].res.span.events) = 1

\* the exceptions handed to handleError in this step
NewExceptions ==
    {o \in (Len(occurrences) + 1)..Len(occurrences') : occurrences'[o].kind = "exception"}
\* this step is the browser running a timer set by handleError
TimerFires == tasks # <<>> /\ Head(tasks).type = "timer" /\ tasks' = Tail(tasks)

\* C20: every call of handleError reports its error once (one span started
\* and ended) and sets one timer that rethrows it; when the timer fires,
\* the rethrown error reaches the window's error listeners and leads to no
\* further span and no further call of handleError.
C20_ReportOnceRethrowOnce ==
    [][/\ \A o \in NewExceptions :
             /\ Cardinality({i \in 1..Len(spans') : spans'[i].occ = o}) = 1
             /\ Cardinality({i \in 1..Len(spans') :
                                spans'[i].occ = o /\ spans'[i].ended}) = 1
             /\ Cardinality({i \in 1..Len(tasks') :
                                tasks'[i].occ = o /\ tasks'[i].type = "timer"}) = 1
       /\ TimerFires => (spans' = spans /\ occurrences' = occurrences)]_vars

(***************************************************************************)
(* Properties of the window listeners.                                     *)
(***************************************************************************)
\* this step is the browser dispatching an 'error' event (of an element, of
\* the window, or the one a throwing timer ends in)
ErrorEventDispatched ==
    tasks # <<>> /\ tasks' = Tail(tasks) /\ Head(tasks).type # "unhandledrejection"
NewSpans == (Len(spans) + 1)..Len(spans')

\* C21: when an 'error' event is dispatched, each error listener reports one
\* resource-load-failure if the target is an IMG, SCRIPT or LINK element and
\* nothing otherwise (window, no target, any other element); the browser's
\* own handling of the event still takes place.
C21_ResourceErrorsOnly ==
    [][ErrorEventDispatched =>
          /\ Len(spans') >= Len(spans)
          /\ Cardinality(NewSpans) =
                IF Head(tasks).target \in {"IMG", "SCRIPT", "LINK"}
                THEN errorListeners ELSE 0
          /\ \A i \in NewSpans :
                /\ spans'[i].name = "resource-load-failure"
                /\ spans'[i].ended /\ spans'[i].occ = Head(tasks).occ
          /\ \A i \in 1..Len(spans) : spans'[i] = spans[i]
          /\ console' = Append(console, Head(tasks).occ)]_vars

\* an error event of a SCRIPT element has been reported and one of a VIDEO
\* element has been dispatched without a report
C21_Witness ==
    /\ tasks = <<>> /\ Len(occurrences) = 2 /\ Len(console) = 2
    /\ occurrences[1] = [kind |-> "resource", src |-> "page"]
    /\ occurrences[2] = [kind |-> "other", src |-> "page"]
    /\ Len(spans) = errorListeners /\ \A i \in 1..Len(spans) : spans[i].occ = 1

(***************************************************************************)
(* Properties of the requests of the page.                                 *)
(***************************************************************************)
ServerIds == {serverActionsInit[i].id : i \in 1..Len(serverActionsInit)}
Completed(r) == req[r].pc \in {"done", "failed"}
\* what the subscriber of request r is called with
Emitted(r) ==
    IF req[r].pc = "done" THEN HttpResponse(req[r].res.status, req[r].res.body)
    ELSE HttpFailure
\* the descriptor as the completion callback of request r leaves it
WrittenBy(r) ==
    LET c1 == runHttpCallback(cmp, req[r].action, Emitted(r))
    IN  (c1.clientActions \o c1.serverActions)[FindIndex(Catalog, req[r].button)]

\* C22: every invocation of a server action issues one request of its own
\* and touches no other request; requests of the same action are in flight
\* side by side; each completion writes the descriptor once, and the
\* descriptor shows the completion that arrived last.
C22_OneRequestPerInvocation ==
    /\ [](\A id \in ServerIds :
            /\ Cardinality(RequestsOf(id)) = LoadingEntries(id)
            /\ \A r \in RequestsOf(id) :
                  /\ req[r].pc \in {"sent", "running", "responded", "done", "failed"}
                  /\ hist[id][req[r].sentAt] = "loading"
                  /\ Completed(r) <=> req[r].doneAt > req[r].sentAt
                  /\ ~Completed(r) => req[r].doneAt = 0
                  /\ Completed(r) => hist[id][req[r].doneAt] = WrittenBy(r).status
                  /\ (Completed(r) /\ LastWriter(r)) => DescriptorOf(id) = WrittenBy(r)
            /\ \A r1, r2 \in RequestsOf(id) :
                  r1 # r2 => /\ req[r1].sentAt # req[r2].sentAt
                             /\ Completed(r1) /\ Completed(r2) =>
                                    req[r1].doneAt # req[r2].doneAt)
    /\ [][Len(req') # Len(req) =>
             /\ Len(req') = Len(req) + 1
             /\ req'[Len(req')].pc = "sent"
             /\ \A r \in 1..Len(req) : req'[r] = req[r]]_vars

\* memory-spike invoked twice, both requests in flight together; the second
\* was answered 200 first, the first was answered 500 last, and the
\* descriptor shows the error
C22_Witness ==
    \E r1, r2 \in RequestsOf("memory") :
        /\ r1 < r2 /\ req[r1].pc = "done" /\ req[r2].pc = "done"
        /\ req[r2].sentAt < req[r2].doneAt /\ req[r2].doneAt < req[r1].doneAt
        /\ req[r2].res.status = 200 /\ req[r1].res.status = 500
        /\ DescriptorOf("memory").status = "error"

\* request r or its response is on the wire
InFlight(r) == r \in Requests /\ req[r].pc \in {"sent", "responded"}

\* every request that was issued yields a response or an error: the API
\* answers what it received, and nothing stays on the wire for ever (the
\* request reaches the API or fails, the response reaches the subscriber)
HttpFairSpec ==
    ServerFairSpec /\ \A r \in 1..MaxEvents : []<>(~InFlight(r))

StatusOf(id) == DescriptorOf(id).status

\* C23: as long as every request yields a response or an error, an action
\* that is loading gets to success or error: it is again and again not
\* loading, and once it has run it is never idle again, so not loading is
\* success or error. An action with no request outstanding is never loading.
C23_LoadingEnds ==
    /\ \A id \in ButtonIds : []<>(StatusOf(id) # "loading")
    /\ [](\A id \in ButtonIds :
            /\ StatusOf(id) = "idle" => hist[id] = <<"idle">>
            /\ StatusOf(id) \in {"idle", "loading", "success", "error"}
            /\ (\A r \in RequestsOf(id) : Completed(r)) => StatusOf(id) # "loading")

\* the timeout action got to success and the network-failure action to
\* error, each after having been loading
C23_Witness ==
    /\ hist["timeout"] = <<"idle", "loading", "success">>
    /\ hist["network-failure"] = <<"idle", "loading", "error">>
    /\ \A r \in Requests : Completed(r)

SuccessOps == {"health", "cpu-spike", "memory-spike", "slow-response", "timeout"}
FaultOps ==
    {"unhandled-exception", "handled-exception", "sql-error", "dependency-failure",
     "serialization-error", "auth-failure", "forbidden"}
\* the backend met what its documentation assumes: the 50 blocks were there
AsDocumented(r) == req[r].env.freeBlocks = BlockCount
Is2xx(status) == status >= 200 /\ status < 300

C25_ClientTimeoutFirst ==
    \A r \in Requests :
        OpOf(r) = "timeout" =>
            /\ req[r].pc # "done"
            /\ (Completed(r) /\ LastWriter(r)) => StatusOf(req[r].button) = "error"

\* C26: when the memory-spike handler has ended, with 200 or with an
\* allocation that failed part-way and the middleware's 500, the list of
\* blocks is empty: the handler holds none of the blocks it allocated.
C26_MemorySpikeReleasesAll ==
    \A r \in Requests :
        (Responded(r) /\ OpOf(r) = "memory-spike") =>
            /\ req[r].res.mem.heldBlocks = 0
            /\ req[r].res.status \in {200, 500}
            /\ req[r].res.status = 200 <=> req[r].env.freeBlocks >= BlockCount
            /\ req[r].res.mem.allocatedMb =
                  IF req[r].res.status = 200 THEN 500 ELSE 10 * req[r].env.freeBlocks

\* an untraced memory-spike ran out of memory after 20 blocks, was answered
\* 500 by the middleware and holds nothing
C26_Witness ==
    \E r \in Requests :
        /\ req[r].pc = "done" /\ OpOf(r) = "memory-spike" /\ req[r].trc = "off"
        /\ req[r].res.status = 500
        /\ req[r].res.body.error = "OutOfMemoryException"
        /\ req[r].res.mem = [allocatedMb |-> 200, heldBlocks |-> 0]

\* C27: every span the interceptor started is ended when the handler that
\* started it has returned, whatever the error value was: an Error object,
\* a string, null or undefined.
C27_EverySpanEnded ==
    \A i \in 1..Len(spans) : spans[i].ended

\* the statuses written by n runs of runClient: loading, error each time
RECURSIVE ClientRuns(_)
ClientRuns(n) == IF n = 0 THEN <<"idle">> ELSE ClientRuns(n - 1) \o <<"loading", "error">>
\* what the injected fault of button id does when it is called
FaultOf(id) == ErrorServiceSimulate(DescriptorOf(id).action.svc)

\* C28: an action run through runClient never shows success and is never
\* left in loading: after every run its status is error. When the fault
\* threw, the response is the exception's message and that exception went
\* on to the caller (the ErrorHandler); when it returned, the response is the
\* fixed text and nothing was thrown.
C28_ClientRunEndsInError ==
    /\ [](\A id \in InterceptedFaultIds :
            /\ hist[id] = ClientRuns((Len(hist[id]) - 1) \div 2)
            /\ StatusOf(id) = hist[id][Len(hist[id])]
            /\ StatusOf(id) \in {"idle", "error"})
    /\ [][\A id \in InterceptedFaultIds :
            hist'[id] # hist[id] =>
                LET d == Catalog'[FindIndex(Catalog', id)]
                    o == occurrences'[Len(occurrences')]
                IN  /\ hist'[id] = hist[id] \o <<"loading", "error">>
                    /\ d.status = "error"
                    /\ Len(occurrences') = Len(occurrences) + 1 /\ o.src = id
                    /\ IF FaultOf(id).threw # NoThrow
                       THEN /\ d.response = <<FaultOf(id).threw.message>>
                            /\ o.kind = "exception"
                            /\ Len(spans') = Len(spans) + 1
                       ELSE /\ d.response = <<"Exception thrown (check Jaeger)">>
                            /\ o.kind \in {"rejection", "resource"}
                            /\ spans' = spans]_vars

\* json-parse threw and shows the parser's message, promise-rejection
\* returned and shows the fixed text; both are in error
C28_Witness ==
    /\ hist["json-parse"] = <<"idle", "loading", "error">>
    /\ DescriptorOf("json-parse").response = <<FaultOf("json-parse").threw.message>>
    /\ hist["promise-rejection"] = <<"idle", "loading", "error">>
    /\ DescriptorOf("promise-rejection").response = <<"Exception thrown (check Jaeger)">>

(***************************************************************************)
(* The page under every runtime configuration.                             *)
(***************************************************************************)
ConfigInit == PageInit /\ windowEnv \in WindowEnvs
ConfigNext ==
    \E list \in {"clientActions", "serverActions"} : \E i \in 1..12 :
        ClickRunHttp(list, i)
ConfigSpec == ConfigInit /\ [][ConfigNext]_vars

\* C29: under every runtime configuration, every request of a server action
\* goes out with the trace header (its URL matches the allowlist of
\* tracing.ts), and the requests of the client-side fault injections
\* (localhost:9999, www.google.com) go out without it.
C29_AllowlistMatchesBackendOnly ==
    \A r \in Requests :
        /\ req[r].button \in ServerIds => req[r].traceparent
        /\ req[r].button \in ClientFaultIds => ~req[r].traceparent

\* the trace the span of request r's handler belongs to: the handler's own
\* activity when one was started, else the request activity around it
HandlerTraceId(r) ==
    LET parent == AmbientActivity(req[r].trc, r)
    IN  ActivityCurrent(StartActivity("handler", req[r].trc, parent), parent).traceId

\* C30: when tracing is active, the traceId of the envelope the middleware
\* wrote for an escaped exception is the trace id of the failing handler's
\* span, and it is the trace id of no other request.
C30_MiddlewareTraceIdIsHandlersTrace ==
    \A r \in Requests :
        (Responded(r) /\ req[r].res.caught = <<"middleware">> /\ req[r].trc # "off") =>
            /\ TruthyId(req[r].res.body.traceId)
            /\ req[r].res.body.traceId = HandlerTraceId(r)
            /\ \A q \in Requests \ {r} :
                  req[q].trc # "off" => req[r].res.body.traceId # HandlerTraceId(q)

\* two traced unhandled-exception requests, each with a span of its handler,
\* overlapped and were answered by the middleware in the other order, each
\* with the id of its own trace
C30_Witness ==
    \E q, r \in Requests :
        /\ q < r /\ req[q].pc = "responded" /\ req[r].pc = "done"
        /\ OpOf(q) = "unhandled-exception" /\ OpOf(r) = "unhandled-exception"
        /\ req[q].trc = "span" /\ req[r].trc = "span"
        /\ req[q].res.caught = <<"middleware">> /\ req[r].res.caught = <<"middleware">>
        /\ req[q].res.body.traceId = q /\ req[r].res.body.traceId = r
====
